---- MODULE Spec2Model ----
(***************************************************************************)
(* Model of scripts/roundRobin.js (the script at lines 1-136 of the file): *)
(* one run of the round-robin triage assigner against a Linear workspace.   *)
(*                                                                          *)
(* Strings are sequences of one-character strings.  Every `await` of the    *)
(* script is two steps: the synchronous code up to the call (the call is    *)
(* appended to `calls` with res = "pending"), and the step that resumes     *)
(* the script with the call's result.                                       *)
(***************************************************************************)
EXTENDS Integers, Sequences, FiniteSets, TLC

\* ---------------------------------------------------------------- bounds
NumIssues == 3
\* issues of the team in the workspace, in the runs of Spec and SpecNeg
MaxEnvLen == 3
\* characters of ASSIGNEE_EMAILS, in the runs of SpecConfig
MaxUsers == 2
\* users of the workspace, in the runs of SpecConfig
MaxRuns == 2
\* runs of the script against one workspace, in the runs of SpecRerun
RerunIssues == 2
\* issues of the team in the workspace, in the runs of SpecRerun

\* ------------------------------------------------------- values and strings
\* The JavaScript value undefined, where a string is expected.
Undefined == << "undefined" >>

\* target of `assignees[idx]` when idx is no index of the array
NoUser == [id |-> 0, name |-> 0]

Chars == {"a", "A", "b", ",", " "}

Strings(n) == UNION {[1..k -> Chars] : k \in 0..n}

\* !v for a string-or-undefined value
Falsy(v) == v = Undefined \/ v = << >>

ToLowerChar(c) ==
  IF c = "A" THEN "a" ELSE IF c = "B" THEN "b" ELSE IF c = "C" THEN "c" ELSE c

\* String.prototype.toLowerCase
ToLowerCase(s) == [k \in 1..Len(s) |-> ToLowerChar(s[k])]

RECURSIVE SplitFrom(_, _, _, _)
SplitFrom(s, k, cur, out) ==
  IF k > Len(s) THEN Append(out, cur)
  ELSE IF s[k] = "," THEN SplitFrom(s, k + 1, << >>, Append(out, cur))
  ELSE SplitFrom(s, k + 1, Append(cur, s[k]), out)

\* String.prototype.split(",")
Split(s) == SplitFrom(s, 1, << >>, << >>)

RECURSIVE TrimStart(_)
TrimStart(s) ==
  IF s # << >> /\ Head(s) = " " THEN TrimStart(Tail(s)) ELSE s

RECURSIVE TrimEnd(_)
TrimEnd(s) ==
  IF s # << >> /\ s[Len(s)] = " " THEN TrimEnd(SubSeq(s, 1, Len(s) - 1)) ELSE s

\* String.prototype.trim
Trim(s) == TrimEnd(TrimStart(s))

IsNonEmpty(s) == s # << >>

\* ASSIGNEE_EMAILS.split(",").map(s => s.trim()).filter(Boolean)
ParseEmails(raw) ==
  LET parts == Split(raw)
      trimmed == [k \in 1..Len(parts) |-> Trim(parts[k])]
  IN SelectSeq(trimmed, IsNonEmpty)

\* the selection keyed one off
JsRem_Shifted(n, m) == (n + 1) % m

\* the % operator of JavaScript on integers: the result has the sign of the dividend
JsRem(n, m) == IF n >= 0 THEN n % m ELSE 0 - ((0 - n) % m)

\* assignees[idx]; JavaScript arrays are 0-based, an absent index reads undefined
ArrayGet(arr, idx) == IF idx >= 0 /\ idx < Len(arr) THEN arr[idx + 1] ELSE NoUser

\* --------------------------------------------------------------- state
VARIABLES
  env,        \* process.env: LINEAR_API_KEY, LINEAR_TEAM_ID, ASSIGNEE_EMAILS, WORKSPACE_SLUG
  directory,  \* the workspace: its users, as client.users() lists them
  store,      \* the workspace: issue id -> [number, assignee, comments, subscribers]
  pc,         \* position of the script
  emails,     \* main: emails
  users,      \* getUserMapByEmail: users.nodes
  assignees,  \* main: assignees
  issues,     \* main: issues (ids of the candidates, in the order returned)
  i,          \* main: position of the for-of loop in issues, 1-based
  idx,        \* main: idx of the current iteration
  target,     \* main: target of the current iteration
  calls,      \* every call made on the client, in order, with its result
  console,    \* lines written to the console: [line, issue]
  uncaught,   \* the error that reached main().catch
  exitCode    \* -1 while running, then the exit status of the process

vars == << env, directory, store, pc, emails, users, assignees, issues, i, idx, target,
           calls, console, uncaught, exitCode >>

NoError == [kind |-> "none", missing |-> << >>]
ApiError == [kind |-> "ApiError", missing |-> << >>]

\* values of a scalar environment variable: unset, empty, set
EnvScalars == {Undefined, << >>, << "x" >>}

\* values u.email takes in a directory entry: absent, or an address
DirEmails == {Undefined, << "a" >>, << "A" >>, << "b" >>}

User(k, email) == [id |-> k, name |-> k, email |-> email]

\* every list of up to n users, ids distinct
Directories(n) ==
  UNION {{[k \in 1..m |-> User(k, f[k])] : f \in [1..m -> DirEmails]} : m \in 0..n}

\* the id of somebody who is no user of the directory
PriorAssignee == 0 - 1

Issue(number, assignee) ==
  [number |-> number, assignee |-> assignee, comments |-> 0, subscribers |-> {}]

\* the workspace with n issues, numbered from first in creation order, each
\* unassigned or already assigned to somebody
Stores(n, first) ==
  {[c \in 1..n |-> Issue(first + c - 1, a[c])] : a \in [1..n -> {0, PriorAssignee}]}

Call(op, issue, actor, slug) ==
  [op |-> op, issue |-> issue, actor |-> actor, slug |-> slug, res |-> "pending"]

Line(n, issue) == [line |-> n, issue |-> issue]

\* the last call is resumed with result r
Resolve(r) == [calls EXCEPT ![Len(calls)].res = r]

InitWith(envs, directories, stores) ==
  /\ env \in envs
  /\ directory \in directories
  /\ store \in stores
  /\ pc = "start"
  /\ emails = << >>
  /\ users = << >>
  /\ assignees = << >>
  /\ issues = << >>
  /\ i = 0
  /\ idx = 0
  /\ target = NoUser
  /\ calls = << >>
  /\ console = << >>
  /\ uncaught = NoError
  /\ exitCode = -1

\* rotation lists: one entry, two entries, three entries of two actors, three
\* entries of three actors, and one that is empty after parsing
Rotations ==
  { << "a" >>,
    << "a", ",", "b" >>,
    << "b", ",", " ", "A", ",", "a" >>,
    << "a", ",", "B", ",", "c" >>,
    << " ", ",", " " >> }

\* complete configurations, with and without the optional WORKSPACE_SLUG
RunEnvs ==
  [LINEAR_API_KEY : {<< "x" >>}, LINEAR_TEAM_ID : {<< "x" >>},
   ASSIGNEE_EMAILS : Rotations, WORKSPACE_SLUG : {Undefined, << "w" >>}]

\* workspaces: two users; four users, one of them without an email; one user
RunDirectories ==
  { << User(1, << "a" >>), User(2, << "b" >>) >>,
    << User(1, Undefined), User(2, << "B" >>), User(3, << "A" >>), User(4, << "c" >>) >>,
    << User(1, << "a" >>) >> }

\* configurations: with the credential and the team set, ASSIGNEE_EMAILS unset
\* or any string of up to MaxEnvLen characters; with the credential or the team
\* unset or empty, one rotation list
ConfigEnvs ==
  [LINEAR_API_KEY : {<< "x" >>}, LINEAR_TEAM_ID : {<< "x" >>},
   ASSIGNEE_EMAILS : {Undefined} \cup Strings(MaxEnvLen),
   WORKSPACE_SLUG : {Undefined, << "w" >>}]
  \cup
  [LINEAR_API_KEY : EnvScalars, LINEAR_TEAM_ID : EnvScalars,
   ASSIGNEE_EMAILS : {<< "a" >>}, WORKSPACE_SLUG : {Undefined, << "w" >>}]

\* Linear numbers the issues of a team 1, 2, 3, ... in creation order
Init == InitWith(RunEnvs, RunDirectories, Stores(NumIssues, 1))

\* every configuration and every workspace of up to MaxUsers users, with one issue
InitConfig == InitWith(ConfigEnvs, Directories(MaxUsers), Stores(1, 1))

\* issue numbers -1, 0, 1, ...: numbers Linear does not give
InitNeg == InitWith(RunEnvs, RunDirectories, Stores(NumIssues, 0 - 1))

\* ------------------------------------------------------- the collaborators
RECURSIVE Descending(_)
Descending(S) ==
  IF S = {} THEN << >>
  ELSE LET m == CHOOSE x \in S : \A y \in S : y <= x
       IN << m >> \o Descending(S \ {m})

\* client.issues({filter: {assignee: {null: true}, ...}, orderBy: "createdAt"}):
\* the unassigned triage issues of the team, newest first
UnassignedIssues(st) == Descending({c \in DOMAIN st : st[c].assignee = 0})

\* ------------------------------------------------------- getUserMapByEmail
RECURSIVE ByEmailFrom(_, _, _)
ByEmailFrom(nodes, k, m) ==
  IF k > Len(nodes) THEN m
  ELSE IF Falsy(nodes[k].email) THEN ByEmailFrom(nodes, k + 1, m)
  ELSE LET key == ToLowerCase(nodes[k].email)
           val == [id |-> nodes[k].id, name |-> nodes[k].name]
       IN ByEmailFrom(nodes, k + 1,
            [x \in (DOMAIN m) \cup {key} |-> IF x = key THEN val ELSE m[x]])

\* the Map byEmail after the loop over users.nodes
ByEmail(nodes) == ByEmailFrom(nodes, 1, << >>)

\* validation that reports the first unknown address only
MissingEmails_FirstOnly(es, byEmail) ==
  LET IsMissing(e) == ToLowerCase(e) \notin DOMAIN byEmail
      all == SelectSeq(es, IsMissing)
  IN IF all = << >> THEN << >> ELSE << all[1] >>

\* no validation of the addresses
MissingEmails_None(es, byEmail) == << >>

\* emails.filter(e => !byEmail.has(e.toLowerCase()))
MissingEmails(es, byEmail) ==
  LET IsMissing(e) == ToLowerCase(e) \notin DOMAIN byEmail
  IN SelectSeq(es, IsMissing)

\* emails.map(e => userMap.get(e)): the lookup without toLowerCase
RotationOf_CaseSensitive(es, userMap) ==
  [k \in 1..Len(es) |-> IF es[k] \in DOMAIN userMap THEN userMap[es[k]] ELSE NoUser]

\* emails.map(e => userMap.get(e.toLowerCase()))
RotationOf(es, userMap) ==
  [k \in 1..Len(es) |->
     IF ToLowerCase(es[k]) \in DOMAIN userMap THEN userMap[ToLowerCase(es[k])] ELSE NoUser]

NotLinearUsers(missing) == [kind |-> "NotLinearUsers", missing |-> missing]

\* ----------------------------------------------------------------- steps
\* process.exit(1) after console.error at source line n
ExitWith(n, err) ==
  /\ console' = Append(console, Line(n, 0))
  /\ uncaught' = err
  /\ exitCode' = 1
  /\ pc' = "exited"

\* the check that also requires WORKSPACE_SLUG
CheckEnv_RequiresSlug ==
  /\ pc = "start"
  /\ IF \/ Falsy(env.LINEAR_API_KEY) \/ Falsy(env.LINEAR_TEAM_ID)
        \/ Falsy(env.ASSIGNEE_EMAILS) \/ Falsy(env.WORKSPACE_SLUG)
     THEN ExitWith(12, NoError)
     ELSE /\ pc' = "main"
          /\ UNCHANGED << console, uncaught, exitCode >>
  /\ UNCHANGED << env, directory, store, emails, users, assignees, issues, i, idx, target, calls >>

\* module top level: the check of the required environment variables
CheckEnv ==
  /\ pc = "start"
  /\ IF Falsy(env.LINEAR_API_KEY) \/ Falsy(env.LINEAR_TEAM_ID) \/ Falsy(env.ASSIGNEE_EMAILS)
     THEN ExitWith(12, NoError)
     ELSE /\ pc' = "main"
          /\ UNCHANGED << console, uncaught, exitCode >>
  /\ UNCHANGED << env, directory, store, emails, users, assignees, issues, i, idx, target, calls >>

\* main, up to the call of client.users() in getUserMapByEmail
MainStart ==
  /\ pc = "main"
  /\ emails' = ParseEmails(env.ASSIGNEE_EMAILS)
  /\ IF Len(emails') = 0
     THEN /\ ExitWith(82, NoError)
          /\ UNCHANGED calls
     ELSE /\ console' = Append(console, Line(85, 0))
          /\ calls' = Append(calls, Call("users", 0, 0, << >>))
          /\ pc' = "awaitUsers"
          /\ UNCHANGED << uncaught, exitCode >>
  /\ UNCHANGED << env, directory, store, users, assignees, issues, i, idx, target >>

\* client.users() rejects: the error reaches main().catch
UsersFail ==
  /\ pc = "awaitUsers"
  /\ calls' = Resolve("error")
  /\ ExitWith(134, ApiError)
  /\ UNCHANGED << env, directory, store, emails, users, assignees, issues, i, idx, target >>

\* client.users() resolves: the rest of getUserMapByEmail, then main up to
\* the call of client.issues()
UsersReturn ==
  /\ pc = "awaitUsers"
  /\ users' = directory
  /\ LET byEmail == ByEmail(users')
         missing == MissingEmails(emails, byEmail)
     IN IF Len(missing) # 0
        THEN /\ calls' = Resolve("ok")
             /\ ExitWith(134, NotLinearUsers(missing))
             /\ UNCHANGED assignees
        ELSE /\ assignees' = RotationOf(emails, byEmail)
             /\ calls' = Append(Resolve("ok"), Call("issues", 0, 0, << >>))
             /\ pc' = "awaitIssues"
             /\ UNCHANGED << console, uncaught, exitCode >>
  /\ UNCHANGED << env, directory, store, emails, issues, i, idx, target >>

\* client.issues() rejects: the error reaches main().catch
IssuesFail ==
  /\ pc = "awaitIssues"
  /\ calls' = Resolve("error")
  /\ ExitWith(134, ApiError)
  /\ UNCHANGED << env, directory, store, emails, users, assignees, issues, i, idx, target >>

\* client.issues() resolves: main up to the head of the for-of loop
IssuesReturn ==
  /\ pc = "awaitIssues"
  /\ calls' = Resolve("ok")
  /\ issues' = UnassignedIssues(store)
  /\ console' = Append(console, Line(102, 0))
  /\ i' = 1
  /\ pc' = "loop"
  /\ UNCHANGED << env, directory, store, emails, users, assignees, idx, target, uncaught, exitCode >>

\* the slug of the profile link of the Markdown fallback
DefaultSlug == << "<your-slug>" >>
SlugOrDefault(slug) == IF Falsy(slug) THEN DefaultSlug ELSE slug

\* the catch of the loop body (console.error, line 124), then the next iteration
CatchInLoop(issue, lines) ==
  /\ console' = console \o lines \o << Line(124, issue) >>
  /\ i' = i + 1
  /\ pc' = "loop"

\* the loop is over: main returns and the process ends with status 0
LoopEnd ==
  /\ pc = "loop"
  /\ i > Len(issues)
  /\ console' = IF Len(issues) = 0 THEN Append(console, Line(129, 0)) ELSE console
  /\ exitCode' = 0
  /\ pc' = "done"
  /\ UNCHANGED << env, directory, store, emails, users, assignees, issues, i, idx, target,
                  calls, uncaught >>

\* one iteration of the for-of loop, up to the call of client.updateIssue
\* (assigneeId); reading target.name of an undefined target throws a TypeError
\* a rotation keyed on the position in the candidate list, not on issue.number
LoopHead_ByPosition ==
  /\ pc = "loop"
  /\ i <= Len(issues)
  /\ LET issue == issues[i]
     IN /\ idx' = JsRem(i - 1, Len(assignees))
        /\ target' = ArrayGet(assignees, idx')
        /\ IF target' = NoUser
           THEN /\ CatchInLoop(issue, << >>)
                /\ UNCHANGED calls
           ELSE /\ console' = Append(console, Line(108, issue))
                /\ calls' = Append(calls, Call("assign", issue, target'.id, << >>))
                /\ pc' = "awaitAssign"
                /\ UNCHANGED i
  /\ UNCHANGED << env, directory, store, emails, users, assignees, issues, uncaught, exitCode >>

LoopHead ==
  /\ pc = "loop"
  /\ i <= Len(issues)
  /\ LET issue == issues[i]
     IN /\ idx' = JsRem(store[issue].number, Len(assignees))
        /\ target' = ArrayGet(assignees, idx')
        /\ IF target' = NoUser
           THEN /\ CatchInLoop(issue, << >>)
                /\ UNCHANGED calls
           ELSE /\ console' = Append(console, Line(108, issue))
                /\ calls' = Append(calls, Call("assign", issue, target'.id, << >>))
                /\ pc' = "awaitAssign"
                /\ UNCHANGED i
  /\ UNCHANGED << env, directory, store, emails, users, assignees, issues, uncaught, exitCode >>

\* a loop body without try/catch: the rejection reaches main().catch
AssignFail_Uncaught ==
  /\ pc = "awaitAssign"
  /\ calls' = Resolve("error")
  /\ ExitWith(134, ApiError)
  /\ UNCHANGED << env, directory, store, emails, users, assignees, issues, i, idx, target >>

\* the rejection of the assignment swallowed: the comment is posted all the same
AssignFail_Notifies ==
  /\ pc = "awaitAssign"
  /\ calls' = Append(Resolve("error"), Call("commentMention", issues[i], target.id, << >>))
  /\ pc' = "awaitMention"
  /\ UNCHANGED << env, directory, store, emails, users, assignees, issues, i, idx, target,
                  console, uncaught, exitCode >>

\* a rejected assignment that is tried a second time before it is given up
AssignFail_Retries ==
  /\ pc = "awaitAssign"
  /\ IF Cardinality({k \in DOMAIN calls : calls[k].op = "assign" /\ calls[k].issue = issues[i]}) = 1
     THEN /\ calls' = Append(Resolve("error"), Call("assign", issues[i], target.id, << >>))
          /\ UNCHANGED << i, pc, console >>
     ELSE /\ calls' = Resolve("error")
          /\ CatchInLoop(issues[i], << >>)
  /\ UNCHANGED << env, directory, store, emails, users, assignees, issues, idx, target,
                  uncaught, exitCode >>

\* client.updateIssue (assigneeId) rejects: caught by the catch of the loop body
AssignFail ==
  /\ pc = "awaitAssign"
  /\ calls' = Resolve("error")
  /\ CatchInLoop(issues[i], << >>)
  /\ UNCHANGED << env, directory, store, emails, users, assignees, issues, idx, target,
                  uncaught, exitCode >>

\* client.updateIssue (assigneeId) resolves: main calls postCommentWithMention,
\* which calls client.createComment with the bodyData mention
AssignReturn ==
  /\ pc = "awaitAssign"
  /\ LET issue == issues[i]
     IN /\ store' = [store EXCEPT ![issue].assignee = target.id]
        /\ console' = Append(console, Line(112, issue))
        /\ calls' = Append(Resolve("ok"), Call("commentMention", issue, target.id, << >>))
  /\ pc' = "awaitMention"
  /\ UNCHANGED << env, directory, emails, users, assignees, issues, i, idx, target,
                  uncaught, exitCode >>

\* a subscribe call for the head of the rotation instead of the target
CallSubscribe_First(issue, line) ==
  /\ store' = [store EXCEPT ![issue].comments = @ + 1]
  /\ console' = Append(console, Line(line, issue))
  /\ calls' = Append(Resolve("ok"), Call("subscribe", issue, assignees[1].id, << >>))
  /\ pc' = "awaitSubscribe"

\* main after postCommentWithMention returned: the call of client.updateIssue
\* (subscriberIds)
CallSubscribe(issue, line) ==
  /\ store' = [store EXCEPT ![issue].comments = @ + 1]
  /\ console' = Append(console, Line(line, issue))
  /\ calls' = Append(Resolve("ok"), Call("subscribe", issue, target.id, << >>))
  /\ pc' = "awaitSubscribe"

\* postCommentWithMention without the return after the bodyData comment: the
\* Markdown comment is posted as well
MentionReturn_FallsThrough ==
  /\ pc = "awaitMention"
  /\ store' = [store EXCEPT ![issues[i]].comments = @ + 1]
  /\ console' = Append(console, Line(57, issues[i]))
  /\ calls' = Append(Resolve("ok"),
                     Call("commentFallback", issues[i], target.id,
                          SlugOrDefault(env.WORKSPACE_SLUG)))
  /\ pc' = "awaitFallback"
  /\ UNCHANGED << env, directory, emails, users, assignees, issues, i, idx, target,
                  uncaught, exitCode >>

\* a subscribe call that is not awaited: the loop goes on while it is in flight
MentionReturn_NoAwait ==
  /\ pc = "awaitMention"
  /\ store' = [store EXCEPT ![issues[i]].comments = @ + 1]
  /\ console' = Append(console, Line(57, issues[i]))
  /\ calls' = Append(Resolve("ok"), Call("subscribe", issues[i], target.id, << >>))
  /\ i' = i + 1
  /\ pc' = "loop"
  /\ UNCHANGED << env, directory, emails, users, assignees, issues, idx, target,
                  uncaught, exitCode >>

\* the bodyData comment is created: postCommentWithMention returns
MentionReturn ==
  /\ pc = "awaitMention"
  /\ CallSubscribe(issues[i], 57)
  /\ UNCHANGED << env, directory, emails, users, assignees, issues, i, idx, target,
                  uncaught, exitCode >>

\* the bodyData comment is rejected: the Markdown fallback is tried
MentionFail ==
  /\ pc = "awaitMention"
  /\ console' = Append(console, Line(60, issues[i]))
  /\ calls' = Append(Resolve("error"),
                     Call("commentFallback", issues[i], target.id,
                          SlugOrDefault(env.WORKSPACE_SLUG)))
  /\ pc' = "awaitFallback"
  /\ UNCHANGED << env, directory, store, emails, users, assignees, issues, i, idx, target,
                  uncaught, exitCode >>

\* the Markdown comment is created: postCommentWithMention returns
FallbackReturn ==
  /\ pc = "awaitFallback"
  /\ CallSubscribe(issues[i], 71)
  /\ UNCHANGED << env, directory, emails, users, assignees, issues, i, idx, target,
                  uncaught, exitCode >>

\* a failed notification that takes the assignment back
FallbackFail_Unassigns ==
  /\ pc = "awaitFallback"
  /\ calls' = Resolve("error")
  /\ store' = [store EXCEPT ![issues[i]].assignee = 0]
  /\ CatchInLoop(issues[i], << Line(74, issues[i]) >>)
  /\ UNCHANGED << env, directory, emails, users, assignees, issues, idx, target,
                  uncaught, exitCode >>

\* a loop body without try/catch: the rethrown error reaches main().catch
FallbackFail_Uncaught ==
  /\ pc = "awaitFallback"
  /\ calls' = Resolve("error")
  /\ console' = console \o << Line(74, issues[i]), Line(134, 0) >>
  /\ uncaught' = ApiError
  /\ exitCode' = 1
  /\ pc' = "exited"
  /\ UNCHANGED << env, directory, store, emails, users, assignees, issues, i, idx, target >>

\* postCommentWithMention without the rethrow: main goes on to subscribe
FallbackFail_Subscribes ==
  /\ pc = "awaitFallback"
  /\ console' = Append(console, Line(74, issues[i]))
  /\ calls' = Append(Resolve("error"), Call("subscribe", issues[i], target.id, << >>))
  /\ pc' = "awaitSubscribe"
  /\ UNCHANGED << env, directory, store, emails, users, assignees, issues, i, idx, target,
                  uncaught, exitCode >>

\* the Markdown comment is rejected too: postCommentWithMention rethrows, and
\* the catch of the loop body takes the error
FallbackFail ==
  /\ pc = "awaitFallback"
  /\ calls' = Resolve("error")
  /\ CatchInLoop(issues[i], << Line(74, issues[i]) >>)
  /\ UNCHANGED << env, directory, store, emails, users, assignees, issues, idx, target,
                  uncaught, exitCode >>

\* client.updateIssue (subscriberIds) resolves
SubscribeReturn ==
  /\ pc = "awaitSubscribe"
  /\ store' = [store EXCEPT ![issues[i]].subscribers = {target.id}]
  /\ console' = Append(console, Line(120, issues[i]))
  /\ calls' = Resolve("ok")
  /\ i' = i + 1
  /\ pc' = "loop"
  /\ UNCHANGED << env, directory, emails, users, assignees, issues, idx, target,
                  uncaught, exitCode >>

\* a subscribe call outside the inner try: the catch of the loop body takes the
\* rejection
SubscribeFail_Caught ==
  /\ pc = "awaitSubscribe"
  /\ calls' = Resolve("error")
  /\ CatchInLoop(issues[i], << >>)
  /\ UNCHANGED << env, directory, store, emails, users, assignees, issues, idx, target,
                  uncaught, exitCode >>

\* client.updateIssue (subscriberIds) rejects: the empty catch ignores it
SubscribeFail ==
  /\ pc = "awaitSubscribe"
  /\ calls' = Resolve("error")
  /\ i' = i + 1
  /\ pc' = "loop"
  /\ UNCHANGED << env, directory, store, emails, users, assignees, issues, idx, target,
                  console, uncaught, exitCode >>

Next ==
  \/ CheckEnv
  \/ MainStart
  \/ UsersFail
  \/ UsersReturn
  \/ IssuesFail
  \/ IssuesReturn
  \/ LoopEnd
  \/ LoopHead
  \/ AssignFail
  \/ AssignReturn
  \/ MentionFail
  \/ MentionReturn
  \/ FallbackFail
  \/ FallbackReturn
  \/ SubscribeFail
  \/ SubscribeReturn

Spec == Init /\ [][Next]_vars

SpecConfig == InitConfig /\ [][Next]_vars

SpecNeg == InitNeg /\ [][Next]_vars

\* configurations with a required variable unset or empty
IncompleteEnvs ==
  [LINEAR_API_KEY : EnvScalars, LINEAR_TEAM_ID : EnvScalars,
   ASSIGNEE_EMAILS : {Undefined, << >>, << "a", ",", "b" >>},
   WORKSPACE_SLUG : {Undefined, << "w" >>}]

\* the runs of Spec, and the runs with an incomplete configuration
InitExit == InitWith(RunEnvs \cup IncompleteEnvs, RunDirectories, Stores(NumIssues, 1))

SpecExit == InitExit /\ [][Next]_vars

\* the run is carried on by the event loop until the script ends: a step that
\* can be taken is taken, and every awaited call resolves or rejects
SpecFair == Init /\ [][Next]_vars /\ WF_vars(Next)

\* ------------------------------------------------------------ repeated runs
\* number of processes of the script started so far: each logs line 12, 82 or
\* 85 once it is past its first two steps
RunsStarted == Cardinality({k \in DOMAIN console : console[k].line \in {12, 82, 85}})

\* the next scheduled run: a new process of the script with the same
\* environment, against the same workspace; the calls and the console output
\* of the earlier runs are kept as the history
Rerun ==
  /\ exitCode # -1
  /\ RunsStarted < MaxRuns
  /\ pc' = "start"
  /\ emails' = << >>
  /\ users' = << >>
  /\ assignees' = << >>
  /\ issues' = << >>
  /\ i' = 0
  /\ idx' = 0
  /\ target' = NoUser
  /\ uncaught' = NoError
  /\ exitCode' = -1
  /\ UNCHANGED << env, directory, store, calls, console >>

NextRerun == Next \/ Rerun

\* one rotation of two addresses, every workspace of RunDirectories
RerunEnvs ==
  {e \in RunEnvs : e.ASSIGNEE_EMAILS = << "a", ",", "b" >> /\ e.WORKSPACE_SLUG = << "w" >>}

InitRerun == InitWith(RerunEnvs, RunDirectories, Stores(RerunIssues, 1))

SpecRerun == InitRerun /\ [][NextRerun]_vars

\* ================================================================ claims
MutationOps == {"assign", "commentMention", "commentFallback", "subscribe"}
CommentOps == {"commentMention", "commentFallback"}

\* positions in calls of the calls of kind op made for issue c
CallsOf(op, c) == {k \in DOMAIN calls : calls[k].op = op /\ calls[k].issue = c}

Attempted(op, c) == CallsOf(op, c) # {}
Succeeded(op, c) == \E k \in CallsOf(op, c) : calls[k].res = "ok"
Failed(op, c) == \E k \in CallsOf(op, c) : calls[k].res = "error"

Logged(n, c) == \E k \in DOMAIN console : console[k] = Line(n, c)

\* the outcome of a candidate, as the console reports it: "Assigned" (line 112)
\* and "Failed on" (line 124)
Outcome(c) ==
  IF Logged(124, c)
  THEN IF Logged(112, c) THEN "NotifyFailed" ELSE "AssignFailed"
  ELSE IF Logged(112, c) THEN "Assigned" ELSE "None"

\* position of issue c in the candidate list, 0 when it is no candidate
Pos(c) == IF \E k \in DOMAIN issues : issues[k] = c
          THEN CHOOSE k \in DOMAIN issues : issues[k] = c ELSE 0

\* the candidates whose iteration is over
Handled == {issues[k] : k \in {j \in DOMAIN issues : j < i}}

IssuesFetched == \E k \in DOMAIN calls : calls[k].op = "issues" /\ calls[k].res = "ok"
RunOver == exitCode # -1

\* C1: failure isolation in the batch loop.  Whatever calls fail, every
\* candidate whose turn has come had its assignment attempted, a run that
\* fetched its candidates never ends before the last of them, and at its end
\* the assignment of every candidate of the list has been attempted.
C1_FailureIsolation ==
  /\ \A c \in Handled : Attempted("assign", c)
  /\ IssuesFetched /\ RunOver =>
       /\ exitCode = 0
       /\ i = Len(issues) + 1
       /\ \A k \in DOMAIN issues : Attempted("assign", issues[k])

\* three candidates, the assignment of the second fails: Assigned,
\* AssignFailed, Assigned
C1_Witness ==
  /\ pc = "done"
  /\ Len(issues) = 3
  /\ Failed("assign", issues[2])
  /\ Outcome(issues[1]) = "Assigned"
  /\ Outcome(issues[2]) = "AssignFailed"
  /\ Outcome(issues[3]) = "Assigned"
  /\ store[issues[3]].assignee # 0

\* the rotation entry the specification selects for sequence number s
Selected(s) == assignees[(s % Len(assignees)) + 1]

\* C2: rotation selection.  The actor of every assignment call is
\* rotation[s mod N] for the candidate's sequence number s, in every
\* iteration the selected target is that entry, and two candidates with the
\* same s mod N are assigned to the same actor.
C2_RotationSelection ==
  /\ \A k \in DOMAIN calls : calls[k].op = "assign" =>
       calls[k].actor = Selected(store[calls[k].issue].number).id
  /\ pc \in {"awaitAssign", "awaitMention", "awaitFallback", "awaitSubscribe"} =>
       /\ idx = store[issues[i]].number % Len(assignees)
       /\ target = Selected(store[issues[i]].number)
  /\ \A j, k \in DOMAIN calls :
       /\ calls[j].op = "assign" /\ calls[k].op = "assign"
       /\ store[calls[j].issue].number % Len(assignees)
            = store[calls[k].issue].number % Len(assignees)
       => calls[j].actor = calls[k].actor

\* rotation of two distinct actors: issues 1 and 3 go to the second, issue 2
\* to the first
C2_Witness ==
  /\ pc = "done"
  /\ Len(assignees) = 2
  /\ assignees[1] # assignees[2]
  /\ Len(issues) = 3
  /\ store[1].assignee = assignees[2].id
  /\ store[3].assignee = assignees[2].id
  /\ store[2].assignee = assignees[1].id

\* C3: no notification without assignment.  Every comment call and every
\* subscribe call for a candidate comes after a successful assignment call for
\* that candidate; after a failed assignment call no comment or subscribe call
\* is made for the candidate, and the loop has moved past it.
C3_NoNotifyWithoutAssign ==
  /\ \A k \in DOMAIN calls : calls[k].op \in MutationOps \ {"assign"} =>
       \E j \in 1..(k - 1) :
         /\ calls[j].op = "assign"
         /\ calls[j].issue = calls[k].issue
         /\ calls[j].res = "ok"
  /\ \A c \in DOMAIN store : Failed("assign", c) =>
       /\ \A op \in MutationOps \ {"assign"} : ~Attempted(op, c)
       /\ c \in Handled

C3_Witness ==
  /\ pc = "done"
  /\ Len(issues) >= 2
  /\ Failed("assign", issues[1])
  /\ Succeeded("commentMention", issues[2])

\* C4: two-tier notification.  After a successful assignment the structured
\* comment is the next call; it is made once; the fallback comment is made
\* once if the structured one failed and not at all otherwise; the two never
\* both succeed and at most one comment is created; when either succeeds the
\* candidate is not reported as failed and the script goes on to subscribe.
C4_TwoTierNotification ==
  \A c \in DOMAIN store :
    /\ \A k \in CallsOf("assign", c) : calls[k].res = "ok" =>
         /\ k < Len(calls)
         /\ calls[k + 1].op = "commentMention"
         /\ calls[k + 1].issue = c
    /\ Cardinality(CallsOf("commentMention", c)) <= 1
    /\ Cardinality(CallsOf("commentFallback", c))
         = (IF Failed("commentMention", c) THEN 1 ELSE 0)
    /\ \A k \in CallsOf("commentFallback", c) :
         \E j \in CallsOf("commentMention", c) : j < k
    /\ ~(Succeeded("commentMention", c) /\ Succeeded("commentFallback", c))
    /\ store[c].comments <= 1
    /\ store[c].comments = 1
         <=> (Succeeded("commentMention", c) \/ Succeeded("commentFallback", c))
    /\ Succeeded("commentMention", c) \/ Succeeded("commentFallback", c) =>
         /\ ~Logged(124, c)
         /\ Attempted("subscribe", c)

C4_Witness ==
  /\ pc = "done"
  /\ Len(issues) >= 1
  /\ Failed("commentMention", issues[1])
  /\ Succeeded("commentFallback", issues[1])
  /\ store[issues[1]].comments = 1
  /\ Outcome(issues[1]) = "Assigned"

\* C5: notification failure is partial success.  When both comment calls of a
\* candidate have failed, the console reports it as assigned and then failed,
\* exactly one assignment call was made for it, its assignee is the selected
\* actor, the loop is past it, every later candidate reached so far had its
\* assignment attempted, and the run does not end in failure.
C5_NotifyFailedIsPartial ==
  \A c \in DOMAIN store :
    Failed("commentMention", c) /\ Failed("commentFallback", c) =>
      /\ Outcome(c) = "NotifyFailed"
      /\ Cardinality(CallsOf("assign", c)) = 1
      /\ store[c].assignee = Selected(store[c].number).id
      /\ store[c].assignee # 0
      /\ c \in Handled
      /\ \A k \in DOMAIN issues : Pos(c) < k /\ k < i => Attempted("assign", issues[k])
      /\ exitCode # 1
      /\ pc = "done" => \A k \in DOMAIN issues : Attempted("assign", issues[k])

C5_Witness ==
  /\ pc = "done"
  /\ Len(issues) >= 2
  /\ Failed("commentFallback", issues[1])
  /\ Outcome(issues[1]) = "NotifyFailed"
  /\ store[issues[1]].assignee # 0
  /\ Outcome(issues[2]) = "Assigned"

AwaitPcs == {"awaitAssign", "awaitMention", "awaitFallback", "awaitSubscribe"}

\* C6: negative sequence numbers.  In the iteration last entered, the index is
\* the non-negative remainder of the sequence number by the rotation length,
\* so it lies in 0..m-1, and the target is an entry of the rotation.
C6_NormalizedIndex ==
  LET last == IF pc \in AwaitPcs THEN i ELSE i - 1
  IN pc \in AwaitPcs \cup {"loop", "done"} /\ last >= 1 =>
       LET m == Len(assignees)
           n == store[issues[last]].number
       IN /\ idx = n % m
          /\ idx \in 0..(m - 1)
          /\ \E k \in DOMAIN assignees : target = assignees[k]

HasKey(u) == ~Falsy(u.email)

EqualsIgnoreCase(a, b) ==
  /\ Len(a) = Len(b)
  /\ \A k \in 1..Len(a) : ToLowerChar(a[k]) = ToLowerChar(b[k])

\* the directory users whose contact key is e, ignoring case
Matches(e) ==
  {k \in DOMAIN directory :
     HasKey(directory[k]) /\ EqualsIgnoreCase(directory[k].email, e)}

IsUnmatched(e) == Matches(e) = {}

\* the configured contact keys without a match, in configuration order
Unmatched == SelectSeq(emails, IsUnmatched)

UsersAnswered == \E k \in DOMAIN calls : calls[k].op = "users" /\ calls[k].res = "ok"

\* C7: directory resolution fails exactly when some configured contact key has
\* no case-insensitive match among the directory entries with a contact key;
\* the error then carries every unmatched key, and the run has ended in
\* failure with the directory query as its only call.
C7_UnknownIdentity ==
  /\ uncaught.kind = "NotLinearUsers" => UsersAnswered
  /\ UsersAnswered =>
       /\ uncaught.kind = "NotLinearUsers" <=> Unmatched # << >>
       /\ Unmatched # << >> =>
            /\ uncaught.missing = Unmatched
            /\ exitCode = 1
            /\ pc = "exited"
            /\ Len(calls) = 1

\* two configured keys, neither in a directory that has users with keys
C7_Witness ==
  /\ uncaught.kind = "NotLinearUsers"
  /\ Len(uncaught.missing) = 2
  /\ \E k \in DOMAIN directory : HasKey(directory[k])
  /\ Len(calls) = 1

Resolved == \E k \in DOMAIN calls : calls[k].op = "issues"

\* C8: when resolution succeeds the rotation has one entry per configured
\* contact key, in configuration order; entry k is a directory user whose
\* contact key equals key k ignoring case; keys equal ignoring case give the
\* same entry; no user without a contact key is in the rotation.
C8_RotationShape ==
  Resolved =>
    /\ emails = ParseEmails(env.ASSIGNEE_EMAILS)
    /\ Len(assignees) = Len(emails)
    /\ \A k \in DOMAIN emails :
         \E u \in Matches(emails[k]) :
           assignees[k] = [id |-> directory[u].id, name |-> directory[u].name]
    /\ \A j, k \in DOMAIN emails :
         EqualsIgnoreCase(emails[j], emails[k]) => assignees[j] = assignees[k]
    /\ \A u \in DOMAIN directory : ~HasKey(directory[u]) =>
         \A k \in DOMAIN assignees : assignees[k].id # directory[u].id

\* the same key twice, in two spellings, and a directory user without a key
C8_Witness ==
  /\ Resolved
  /\ emails = << << "a" >>, << "A" >> >>
  /\ assignees[1] = assignees[2]
  /\ assignees[1] # NoUser
  /\ \E u \in DOMAIN directory : ~HasKey(directory[u])

HasMutation == \E k \in DOMAIN calls : calls[k].op \in MutationOps

\* C9: pre-flight.  Once a mutation call has been made the rotation is
\* non-empty and each of its entries is a user of the directory with a contact
\* key; a run that ends in failure has made no mutation call and changed no
\* issue; a run that ends in success has been through its whole candidate list.
C9_PreFlight ==
  /\ HasMutation =>
       /\ Len(assignees) >= 1
       /\ \A k \in DOMAIN assignees :
            /\ assignees[k] # NoUser
            /\ \E u \in DOMAIN directory :
                 HasKey(directory[u]) /\ directory[u].id = assignees[k].id
  /\ exitCode = 1 =>
       /\ ~HasMutation
       /\ \A c \in DOMAIN store :
            /\ store[c].assignee \in {0, PriorAssignee}
            /\ store[c].comments = 0
            /\ store[c].subscribers = {}
  /\ exitCode = 0 =>
       /\ i = Len(issues) + 1
       /\ \A k \in DOMAIN issues : Attempted("assign", issues[k])
  /\ exitCode \in {-1, 0, 1}

C9_Witness ==
  /\ pc = "done"
  /\ Len(issues) = 3
  /\ Len(assignees) = 3
  /\ \A k \in DOMAIN issues : Succeeded("assign", issues[k])

RequiredMissing ==
  \/ Falsy(env.LINEAR_API_KEY)
  \/ Falsy(env.LINEAR_TEAM_ID)
  \/ Falsy(env.ASSIGNEE_EMAILS)

\* C10: with LINEAR_API_KEY, LINEAR_TEAM_ID or ASSIGNEE_EMAILS missing the
\* process makes no call on the client and its first step ends it with status
\* 1; with the three present the configuration check never ends the run,
\* whether WORKSPACE_SLUG is set or not, and a Markdown fallback posted
\* without it uses the placeholder slug.
C10_MissingConfiguration ==
  /\ RequiredMissing =>
       /\ calls = << >>
       /\ pc # "start" => pc = "exited" /\ exitCode = 1 /\ Logged(12, 0)
  /\ ~RequiredMissing =>
       /\ ~Logged(12, 0)
       /\ \A k \in DOMAIN calls : calls[k].op = "commentFallback" =>
            calls[k].slug = (IF Falsy(env.WORKSPACE_SLUG) THEN DefaultSlug
                             ELSE env.WORKSPACE_SLUG)

\* the team identifier unset, the rest set
C10_Witness ==
  /\ env.LINEAR_TEAM_ID = Undefined
  /\ ~Falsy(env.LINEAR_API_KEY)
  /\ ~Falsy(env.ASSIGNEE_EMAILS)
  /\ exitCode = 1
  /\ calls = << >>


CallFailed(op) == \E k \in DOMAIN calls : calls[k].op = op /\ calls[k].res = "error"

\* C11: exit status.  The process ends with status 1 exactly when a required
\* variable is missing, the rotation is empty after parsing, some address is
\* no user of the directory, or the directory query or the candidate query is
\* rejected; once the candidates are fetched no failure of an assignment,
\* comment or subscribe call ends the run in failure, and the run that reaches
\* the end of the loop ends with status 0.
C11_ExitStatus ==
  /\ exitCode = 1 <=>
       \/ RequiredMissing /\ pc # "start"
       \/ Logged(82, 0)
       \/ uncaught.kind = "NotLinearUsers"
       \/ CallFailed("users")
       \/ CallFailed("issues")
  /\ Logged(82, 0) <=> pc = "exited" /\ ~RequiredMissing /\ emails = << >>
  /\ IssuesFetched => exitCode # 1
  /\ (\E op \in MutationOps : CallFailed(op)) => exitCode # 1
  /\ pc = "done" <=> exitCode = 0
  /\ pc = "exited" <=> exitCode = 1

\* three candidates: an assignment fails, both comments fail, a subscribe
\* fails; the run ends with status 0
C11_Witness ==
  /\ exitCode = 0
  /\ Len(issues) = 3
  /\ Failed("assign", issues[1])
  /\ Failed("commentFallback", issues[2])
  /\ Failed("subscribe", issues[3])


\* C12: subscribe is best-effort.  When the subscribe call of a candidate has
\* failed, nothing is logged for the failure, the candidate is reported as
\* assigned and not as failed, its assignee is the selected actor and its
\* comment stays, the loop has moved past it, every later candidate reached so
\* far had its assignment attempted, and the run does not end in failure.
C12_SubscribeBestEffort ==
  \A c \in DOMAIN store :
    Failed("subscribe", c) =>
      /\ Outcome(c) = "Assigned"
      /\ ~Logged(120, c)
      /\ store[c].assignee = Selected(store[c].number).id
      /\ store[c].comments = 1
      /\ store[c].subscribers = {}
      /\ c \in Handled
      /\ \A k \in DOMAIN issues : Pos(c) < k /\ k < i => Attempted("assign", issues[k])
      /\ exitCode # 1
      /\ pc = "done" => \A k \in DOMAIN issues : Attempted("assign", issues[k])

\* the subscribe call of the first candidate failed, the second candidate was
\* assigned, notified and subscribed
C12_Witness ==
  /\ pc = "done"
  /\ Len(issues) >= 2
  /\ Failed("subscribe", issues[1])
  /\ Outcome(issues[1]) = "Assigned"
  /\ Succeeded("subscribe", issues[2])
  /\ store[issues[2]].subscribers # {}


InFlight == {k \in DOMAIN calls : calls[k].res = "pending"}
IssuesCalls == {k \in DOMAIN calls : calls[k].op = "issues"}

\* C15: strictly sequential processing in source order.  The candidate query
\* is issued at most once, and exactly once in a run that reaches the loop; a
\* call is in flight exactly while the script is suspended on it, and it is
\* the last call issued, so no two calls are ever in flight; the calls for the
\* candidates come after the candidate query, in the order of the candidate
\* list, every call for an earlier candidate has completed before a call for a
\* later one is issued, and the call in flight is for the current candidate.
C15_Sequential ==
  /\ Cardinality(IssuesCalls) <= 1
  /\ pc \in {"loop", "done"} \cup AwaitPcs => Cardinality(IssuesCalls) = 1
  /\ Cardinality(InFlight) <= 1
  /\ InFlight \subseteq {Len(calls)}
  /\ InFlight # {} <=> pc \in {"awaitUsers", "awaitIssues"} \cup AwaitPcs
  /\ \A k \in DOMAIN calls : calls[k].op \in MutationOps =>
       /\ \E j \in 1..(k - 1) : calls[j].op = "issues" /\ calls[j].res = "ok"
       /\ Pos(calls[k].issue) \in 1..i
       /\ Pos(calls[k].issue) <= Len(issues)
       /\ calls[k].res = "pending" => calls[k].issue = issues[i]
       /\ \A j \in 1..(k - 1) : calls[j].op \in MutationOps =>
            /\ Pos(calls[j].issue) <= Pos(calls[k].issue)
            /\ calls[j].res # "pending"
  /\ \A j, k \in DOMAIN issues : j < k => store[issues[j]].number > store[issues[k]].number
  /\ \A c \in Handled : \A op \in MutationOps : \A k \in CallsOf(op, c) :
       calls[k].res # "pending"

\* a finished run over three candidates, each with calls of its own
C15_Witness ==
  /\ pc = "done"
  /\ Len(issues) = 3
  /\ \A k \in 1..3 : Succeeded("assign", issues[k])
  /\ Failed("commentMention", issues[2])
  /\ Attempted("subscribe", issues[1])
  /\ Attempted("subscribe", issues[3])


RotationIds == {assignees[k].id : k \in DOMAIN assignees}

\* C17: target consistency.  All the calls made for one candidate (assign,
\* structured comment, fallback comment, subscribe) name one actor, the
\* rotation entry selected for the candidate's sequence number, and the
\* assignee and the subscriber the store records are that actor; every actor
\* named by a call is an entry of the rotation.
C17_TargetConsistency ==
  /\ \A k \in DOMAIN calls : calls[k].op \in MutationOps =>
       /\ calls[k].actor = Selected(store[calls[k].issue].number).id
       /\ calls[k].actor \in RotationIds
       /\ calls[k].actor # NoUser.id
       /\ \A j \in DOMAIN calls :
            calls[j].op \in MutationOps /\ calls[j].issue = calls[k].issue
            => calls[j].actor = calls[k].actor
  /\ \A c \in DOMAIN store :
       /\ Succeeded("assign", c) => store[c].assignee = Selected(store[c].number).id
       /\ store[c].subscribers # {} =>
            /\ Succeeded("subscribe", c)
            /\ store[c].subscribers = {Selected(store[c].number).id}
            /\ store[c].subscribers = {store[c].assignee}

\* a candidate of the second entry of a rotation of two distinct actors, with
\* all four calls made for it
C17_Witness ==
  /\ Len(assignees) = 2
  /\ assignees[1].id # assignees[2].id
  /\ \E c \in DOMAIN store :
       /\ Succeeded("assign", c)
       /\ Failed("commentMention", c)
       /\ Succeeded("commentFallback", c)
       /\ Succeeded("subscribe", c)
       /\ store[c].subscribers = {assignees[2].id}
       /\ \A op \in MutationOps : \A k \in CallsOf(op, c) : calls[k].actor = assignees[2].id


\* C18: subscribe ordering.  A subscribe call for a candidate is issued right
\* after a comment call for that candidate has succeeded, and after the
\* assignment call for it has succeeded; when both comment calls of a
\* candidate have failed, or its assignment has, no subscribe call is made for
\* it and nobody is subscribed to it.
C18_SubscribeOrdering ==
  /\ \A k \in DOMAIN calls : calls[k].op = "subscribe" =>
       /\ k > 1
       /\ calls[k - 1].op \in CommentOps
       /\ calls[k - 1].issue = calls[k].issue
       /\ calls[k - 1].res = "ok"
       /\ \E j \in 1..(k - 2) :
            /\ calls[j].op = "assign"
            /\ calls[j].issue = calls[k].issue
            /\ calls[j].res = "ok"
       /\ store[calls[k].issue].comments = 1
       /\ store[calls[k].issue].assignee = calls[k].actor
  /\ \A c \in DOMAIN store :
       (Failed("commentMention", c) /\ Failed("commentFallback", c)) \/ Failed("assign", c) =>
         /\ ~Attempted("subscribe", c)
         /\ store[c].subscribers = {}

\* one candidate subscribed after its fallback comment, another with both
\* comments rejected and no subscribe call, in a finished run
C18_Witness ==
  /\ pc = "done"
  /\ \E c, e \in DOMAIN store :
       /\ Succeeded("commentFallback", c)
       /\ Succeeded("subscribe", c)
       /\ Failed("commentFallback", e)
       /\ ~Attempted("subscribe", e)
       /\ Pos(e) < Pos(c)


Visits(c) == {k \in DOMAIN console : console[k] = Line(108, c)}

\* no retries: for each candidate at most one call of each kind is issued,
\* and a candidate is visited once (never twice, and once when its turn has
\* come); the number of calls of a run is bounded by the candidates
NoRetries ==
  /\ \A c \in DOMAIN store :
       /\ \A op \in MutationOps : Cardinality(CallsOf(op, c)) <= 1
       /\ Cardinality(Visits(c)) <= 1
       /\ c \in Handled => Cardinality(Visits(c)) = 1
       /\ Cardinality(Visits(c)) = 1 <=> Attempted("assign", c)
       /\ Pos(c) = 0 => Visits(c) = {}
  /\ \A j, k \in DOMAIN issues : issues[j] = issues[k] => j = k
  /\ Len(calls) <= 2 + 4 * Len(issues)
  /\ i <= Len(issues) + 1

\* C16: no retries and termination.  In every run no call is issued twice for
\* a candidate and every candidate is visited once, and whatever calls fail
\* the run reaches its end: it ends with an exit status, and a run that
\* fetched its candidates ends after the last of them.
C16_NoRetriesAndTermination ==
  /\ []NoRetries
  /\ <>RunOver
  /\ IssuesFetched ~> (pc = "done" /\ i = Len(issues) + 1)

\* a finished run over three candidates in which calls of every kind failed
C16_Witness ==
  /\ pc = "done"
  /\ Len(issues) = 3
  /\ i = 4
  /\ Failed("assign", issues[1])
  /\ Failed("commentFallback", issues[2])
  /\ Failed("subscribe", issues[3])
  /\ Len(calls) = 2 + 1 + 3 + 3


\* ------------------------------------------------------------ repeated runs
UnassignedSet(st) == {c \in DOMAIN st : st[c].assignee = 0}
Candidates == {issues[k] : k \in DOMAIN issues}

\* position in calls of the candidate query of the run last started that got
\* as far as the query, 0 when there is none
LastQuery == IF IssuesCalls = {} THEN 0
             ELSE CHOOSE q \in IssuesCalls : \A k \in IssuesCalls : k <= q

\* the current run has fetched its candidates
InLoop == pc \in {"loop", "done"} \cup AwaitPcs

AssignedInRun == {c \in DOMAIN store : \E k \in CallsOf("assign", c) :
                                          k > LastQuery /\ calls[k].res = "ok"}

SameTargetEveryRun ==
  /\ \A j, k \in DOMAIN calls :
       /\ calls[j].op \in MutationOps /\ calls[k].op \in MutationOps
       /\ calls[j].issue = calls[k].issue
       => calls[j].actor = calls[k].actor
  /\ \A c \in DOMAIN store : \A j \in CallsOf("assign", c) :
       calls[j].res = "ok" =>
         /\ store[c].assignee = calls[j].actor
         /\ \A k \in CallsOf("assign", c) : k <= j
  /\ \A k \in DOMAIN calls : calls[k].op \in MutationOps =>
       store[calls[k].issue].assignee # PriorAssignee
  /\ InLoop => UnassignedSet(store) = Candidates \ AssignedInRun

NoReassignment ==
  /\ \A c \in DOMAIN store :
       /\ store[c].assignee # 0 => store'[c].assignee = store[c].assignee
       /\ store'[c].assignee # store[c].assignee =>
            /\ pc = "awaitAssign"
            /\ issues[i] = c
            /\ store'[c].assignee = target.id
  /\ UnassignedSet(store') \subseteq UnassignedSet(store)
  /\ ~InLoop => store' = store

\* C13: re-run idempotence.  Over the runs of the script with one rotation
\* against one workspace, all the calls ever made for an issue name the same
\* actor, an issue that has an assignee keeps it (no assignment call follows a
\* successful one, and an issue assigned before the first run is never
\* touched), and the set of unassigned issues only shrinks: while a run is in
\* its loop and at its end it is the set the run fetched minus the candidates
\* whose assignment succeeded in this run, and a run that does not reach the
\* loop leaves the store as it was.
C13_RerunIdempotence == []SameTargetEveryRun /\ [][NoReassignment]_vars

\* the assignment of an issue failed in one run and succeeded in a later one,
\* for the same actor, the second of a rotation of two
C13_Witness ==
  /\ exitCode = 0
  /\ Len(assignees) = 2
  /\ assignees[1].id # assignees[2].id
  /\ RunsStarted = 2
  /\ \E c \in DOMAIN store : \E j, k \in CallsOf("assign", c) :
       /\ j < LastQuery /\ LastQuery < k
       /\ calls[j].res = "error"
       /\ calls[k].res = "ok"
       /\ calls[j].actor = assignees[2].id
       /\ store[c].assignee = assignees[2].id


\* positions of the calls made for issue c in the runs before the current one
EarlierCalls(c) == {k \in DOMAIN calls : /\ k < LastQuery
                                         /\ calls[k].op \in MutationOps
                                         /\ calls[k].issue = c}

\* the processing of c failed the last time a run processed it: its last call
\* then was a rejected assignment or a rejected fallback comment
FailedLastTime(c) ==
  /\ EarlierCalls(c) # {}
  /\ LET k == CHOOSE m \in EarlierCalls(c) : \A n \in EarlierCalls(c) : n <= m
     IN /\ calls[k].res = "error"
        /\ calls[k].op \in {"assign", "commentFallback"}

NoFailureInRun == \A k \in DOMAIN calls : k >= LastQuery => calls[k].res = "ok"

\* C14: a failed item is left for the next run.  A candidate whose processing
\* failed the last time it was processed (assignment rejected, or both
\* comments rejected) is among the candidates of the next run that fetches
\* its candidates, and at the end of a run in which no call failed every issue
\* that has ever been a candidate is assigned and has its comment.
C14_FailedItemLeftForNextRun ==
  /\ InLoop => \A c \in DOMAIN store : FailedLastTime(c) => c \in Candidates
  /\ pc = "done" /\ NoFailureInRun =>
       \A c \in DOMAIN store : Attempted("assign", c) =>
         /\ store[c].assignee # 0
         /\ store[c].comments >= 1

====
